---- MODULE Spec2Model ----
(***************************************************************************)
(* Model of src/src/next_array.rs: ArrayBuilder<T, N> (new, push, take,    *)
(* Drop) and the driver next_array.                                        *)
(*                                                                         *)
(* The code is generic in T and never inspects an element, so an element   *)
(* is modelled by a token that is unique in the run: the source yields the *)
(* tokens 1, 2, .., m in this order.  A token stands for one live T value; *)
(* moving it moves the token, dropping it appends the token to `released`. *)
(* A slot of `arr` that holds MaybeUninit::uninit() holds Uninit.          *)
(*                                                                         *)
(* Specifications:                                                         *)
(*   Spec        calls of next_array on one source;                        *)
(*   SpecBuilder a client that calls new, push, take and drops the builder;*)
(*   SpecUnwind  the same client, with elements whose destructor panics    *)
(*               (the set `bad`, empty in the other specifications);       *)
(*   SpecTake    the client with take run statement by statement.          *)
(***************************************************************************)
EXTENDS Integers, Sequences, FiniteSets

\* Bounds of the model.
MaxN == 3         \* N ranges over 0..MaxN
MaxSrc == 5       \* the source holds 0..MaxSrc items
MaxCalls == 3     \* next_array calls per run
MaxOps == 7       \* builder operations per run of the builder client

\* The content of a slot that was never written (MaybeUninit::uninit()).
Uninit == 0

Range(s) == {s[k] : k \in DOMAIN s}

VARIABLES
    N,          \* the const generic N, fixed for the run
    bad,        \* the elements whose destructor panics, fixed for the run
    it,         \* the source iterator: the items it has yet to yield
    pc,         \* "idle" (not in a call), "loop" (next_array, line 77..79)
                \* or "aborted" (the process was aborted)
    alive,      \* whether a builder exists
    builder,    \* the ArrayBuilder: [arr, len]
    i,          \* next_array: completed iterations of the loop of line 77
    cur,        \* next_array: ghost record of the call in progress
    results,    \* next_array: ghost log, one record per finished call
    released,   \* ghost: every element destroyed so far, in order
    leaked,     \* ghost: elements whose owner went away without a drop
    fed,        \* the array that was turned into the source (round trip)
    fedAt,      \* number of finished calls when that happened, -1 if never
    hist,       \* builder client: ghost log, one record per operation
    tk          \* a take in progress: its local `arr` (line 47) and, as a
                \* ghost, the builder it was entered with

vars == <<N, bad, it, pc, alive, builder, i, cur, results, released, leaked,
          fed, fedAt, hist, tk>>

driverVars == <<pc, i, cur, results, fed, fedAt>>

----------------------------------------------------------------------------
(* ArrayBuilder                                                            *)

\* [(); N].map(|_| MaybeUninit::uninit())
uninit_array == [s \in 1..N |-> Uninit]

\* ArrayBuilder::new
new == [arr |-> uninit_array, len |-> 0]

\* Mutant of push: `self.len += 1` is forgotten.
push_no_inc(self, value) ==
    IF self.len < N
    THEN [self  |-> [arr |-> [self.arr EXCEPT ![self.len + 1] = value],
                     len |-> self.len],
          panic |-> FALSE,
          leak  |-> {}]
    ELSE [self  |-> self,
          panic |-> TRUE,
          leak  |-> {value}]

\* Mutant of push: no bounds check, a push on a full builder overwrites
\* the last slot and returns.
push_clobber(self, value) ==
    IF self.len < N
    THEN [self  |-> [arr |-> [self.arr EXCEPT ![self.len + 1] = value],
                     len |-> self.len + 1],
          panic |-> FALSE,
          leak  |-> {}]
    ELSE [self  |-> [arr |-> [s \in 1..N |->
                                IF s = N THEN value ELSE self.arr[s]],
                     len |-> self.len],
          panic |-> FALSE,
          leak  |-> {}]

\* Mutant of push: the value is stored at index 0, not at index len.
push_first(self, value) ==
    IF self.len < N
    THEN [self  |-> [arr |-> [self.arr EXCEPT ![1] = value],
                     len |-> self.len + 1],
          panic |-> FALSE,
          leak  |-> {}]
    ELSE [self  |-> self,
          panic |-> TRUE,
          leak  |-> {value}]

\* ArrayBuilder::push.  The right operand MaybeUninit::new(value) is built
\* first, then self.arr[self.len] is bounds-checked: with len >= N the index
\* panics, the builder is untouched, and the MaybeUninit temporary goes away
\* without running T's destructor, so the value is leaked.
push(self, value) ==
    IF self.len < N
    THEN [self  |-> [arr |-> [self.arr EXCEPT ![self.len + 1] = value],
                     len |-> self.len + 1],
          panic |-> FALSE,
          leak  |-> {}]
    ELSE [self  |-> self,
          panic |-> TRUE,
          leak  |-> {value}]

\* Mutant of take: the array is copied out but `self.len = 0` and the
\* replacement of self.arr are forgotten.
take_keep_len(self) ==
    IF self.len = N
    THEN [self   |-> self,
          some   |-> TRUE,
          arr    |-> self.arr,
          access |-> 1..N,
          rel    |-> <<>>]
    ELSE [self   |-> self,
          some   |-> FALSE,
          arr    |-> <<>>,
          access |-> {},
          rel    |-> <<>>]

\* Mutant of take: the test is `self.len <= N`, so a builder that is not
\* full is taken too.
take_partial(self) ==
    IF self.len <= N
    THEN [self   |-> [arr |-> uninit_array, len |-> 0],
          some   |-> TRUE,
          arr    |-> self.arr,
          access |-> 1..N,
          rel    |-> <<>>]
    ELSE [self   |-> self,
          some   |-> FALSE,
          arr    |-> <<>>,
          access |-> {},
          rel    |-> <<>>]

\* Mutant of take: the array is built back to front.
take_rev(self) ==
    IF self.len = N
    THEN [self   |-> [arr |-> uninit_array, len |-> 0],
          some   |-> TRUE,
          arr    |-> [s \in 1..N |-> self.arr[N + 1 - s]],
          access |-> 1..N,
          rel    |-> <<>>]
    ELSE [self   |-> self,
          some   |-> FALSE,
          arr    |-> <<>>,
          access |-> {},
          rel    |-> <<>>]

\* Mutant of the statements of take: the storage is moved out first and
\* len is reset after it.
take_stmt_swapped(st, k) ==
    IF k = 1
    THEN [self  |-> [st.self EXCEPT !.arr = uninit_array],
          local |-> st.self.arr]
    ELSE [self  |-> [st.self EXCEPT !.len = 0],
          local |-> st.local]

\* The statements of the `len == N` branch of take, one at a time, on the
\* builder st.self and take's local st.local:
\*   k = 1, line 46: self.len = 0;
\*   k = 2, line 47: let arr = mem::replace(&mut self.arr, uninit array).
take_stmt(st, k) ==
    IF k = 1
    THEN [self  |-> [st.self EXCEPT !.len = 0],
          local |-> st.local]
    ELSE [self  |-> [st.self EXCEPT !.arr = uninit_array],
          local |-> st.self.arr]

\* ArrayBuilder::take.  `arr` is the returned array when `some`, `access`
\* the set of slots read as a T (assume_init), `rel` the elements take
\* destroys (it moves the elements out and destroys none).
take(self) ==
    IF self.len = N
    THEN [self   |-> [arr |-> uninit_array, len |-> 0],
          some   |-> TRUE,
          arr    |-> self.arr,
          access |-> 1..N,
          rel    |-> <<>>]
    ELSE [self   |-> self,
          some   |-> FALSE,
          arr    |-> <<>>,
          access |-> {},
          rel    |-> <<>>]

\* The n-th smallest member of the set S of integers.
Nth(S, n) == CHOOSE s \in S : Cardinality({t \in S : t <= s}) = n

\* ptr::drop_in_place on a slice, whose elements are the sequence sl: the
\* destructors run in index order.  When one panics, the drop glue goes on
\* with the elements after it before the panic leaves the glue, and it does
\* so whether the slice is dropped on the normal path or by a panic that is
\* unwinding.  A second destructor that panics stops the glue there and the
\* process is aborted.  A panic that leaves the glue while another panic is
\* unwinding aborts the process too, after the glue has gone over the
\* remaining elements.  `rel` is the sequence of elements whose destructor
\* was run.
drop_slice(sl, unwinding) ==
    LET P    == {s \in DOMAIN sl : sl[s] \in bad}
        stop == IF Cardinality(P) >= 2 THEN Nth(P, 2) ELSE Len(sl)
    IN  [rel   |-> SubSeq(sl, 1, stop),
         panic |-> P /= {},
         abort |-> IF unwinding THEN P /= {} ELSE Cardinality(P) >= 2]

\* Mutant of drop: no Drop impl, the MaybeUninit slots are just forgotten.
drop_nothing(self, unwinding) ==
    [rel    |-> <<>>,
     access |-> {},
     panic  |-> FALSE,
     abort  |-> FALSE]

\* Mutant of drop: the whole array is dropped, not only arr[..len].
drop_all(self, unwinding) ==
    LET d == drop_slice([s \in 1..N |-> self.arr[s]], unwinding)
    IN  [rel    |-> d.rel,
         access |-> 1..Len(d.rel),
         panic  |-> d.panic,
         abort  |-> d.abort]

\* Mutant of drop: a plain loop over arr[..len] that calls each destructor;
\* the first panic leaves the loop and the elements after it are skipped.
drop_loop(self, unwinding) ==
    LET sl == [s \in 1..self.len |-> self.arr[s]]
        P  == {s \in DOMAIN sl : sl[s] \in bad}
        stop == IF P = {} THEN Len(sl) ELSE Nth(P, 1)
    IN  [rel    |-> SubSeq(sl, 1, stop),
         access |-> 1..stop,
         panic  |-> P /= {},
         abort  |-> unwinding /\ P /= {}]

\* Drop for ArrayBuilder: drop_in_place of the slice arr[..len], in index
\* order.  `unwinding` tells whether the builder is dropped by a panic that
\* is unwinding.  `rel` is the sequence of elements whose destructor was
\* run, `access` the set of slots read as a T, `panic` whether a destructor
\* panicked, `abort` whether the process was aborted.
drop(self, unwinding) ==
    LET d == drop_slice([s \in 1..self.len |-> self.arr[s]], unwinding)
    IN  [rel    |-> d.rel,
         access |-> 1..Len(d.rel),
         panic  |-> d.panic,
         abort  |-> d.abort]

\* Mutant of the loop range: `0..=N`.
in_range_inclusive(k) == k <= N

\* Line 77, `for _ in 0..N`: whether the loop runs an iteration after k
\* completed ones.
in_range(k) == k < N

----------------------------------------------------------------------------
(* Initial state                                                           *)

NoCall == [before |-> <<>>, pulled |-> <<>>, nexts |-> 0, rel |-> <<>>]

\* No take is in progress.
NoTake == [pre |-> new, local |-> <<>>]

\* The state before any call, but for the choice of `bad`.
InitBase ==
    /\ N \in 0..MaxN
    /\ \E m \in 0..MaxSrc : it = [k \in 1..m |-> k]
    /\ pc = "idle"
    /\ alive = FALSE
    /\ builder = new
    /\ i = 0
    /\ cur = NoCall
    /\ results = <<>>
    /\ released = <<>>
    /\ leaked = {}
    /\ fed = <<>>
    /\ fedAt = -1
    /\ hist = <<>>
    /\ tk = NoTake

\* No destructor panics.
Init ==
    /\ InitBase
    /\ bad = {}

\* Any elements of the source may have a destructor that panics.
InitBad ==
    /\ InitBase
    /\ bad \in SUBSET Range(it)

----------------------------------------------------------------------------
(* next_array, one action per step of its body                             *)

Result(kind, arr, c, after) ==
    [kind |-> kind, arr |-> arr, before |-> c.before, after |-> after,
     pulled |-> c.pulled, nexts |-> c.nexts, rel |-> c.rel]

\* What the caller sees of a call that would end as `kind` when the builder's
\* drop had the outcome d: nothing when the process was aborted, a panic
\* when a destructor panicked on the normal path.
Outcome(kind, d) ==
    IF d.abort THEN "Abort"
    ELSE IF d.panic /\ kind \in {"Some", "None"} THEN "DropPanic"
    ELSE kind

\* Where control is after the builder's drop had the outcome d.
After(d) == IF d.abort THEN "aborted" ELSE "idle"

\* Line 76: let mut builder = ArrayBuilder::new();
Call ==
    /\ pc = "idle"
    /\ ~alive
    /\ hist = <<>>
    /\ Len(results) < MaxCalls
    /\ pc' = "loop"
    /\ alive' = TRUE
    /\ builder' = new
    /\ i' = 0
    /\ cur' = [before |-> it, pulled |-> <<>>, nexts |-> 0, rel |-> <<>>]
    /\ UNCHANGED <<N, bad, tk, it, results, released, leaked, fed, fedAt, hist>>

\* Lines 77..78, it.next() is Some(x): builder.push(x).  A panic of push
\* unwinds through next_array and drops the builder.
PullSome ==
    /\ pc = "loop"
    /\ in_range(i)
    /\ it /= <<>>
    /\ LET x == Head(it)
           p == push(builder, x)
           c == [cur EXCEPT !.pulled = Append(@, x), !.nexts = @ + 1]
       IN  /\ it' = Tail(it)
           /\ leaked' = leaked \cup p.leak
           /\ IF p.panic
              THEN LET d == drop(p.self, TRUE)
                       c2 == [c EXCEPT !.rel = @ \o d.rel]
                   IN  /\ released' = released \o d.rel
                       /\ results' = Append(results,
                                        Result(Outcome("PushPanic", d), <<>>,
                                               c2, Tail(it)))
                       /\ alive' = FALSE
                       /\ builder' = new
                       /\ pc' = After(d)
                       /\ i' = 0
                       /\ cur' = NoCall
              ELSE /\ builder' = p.self
                   /\ i' = i + 1
                   /\ cur' = c
                   /\ UNCHANGED <<pc, alive, results, released>>
    /\ UNCHANGED <<N, bad, tk, fed, fedAt, hist>>

\* Lines 77..78, it.next() is None: `?` returns None and the builder is
\* dropped on the way out.
PullNone ==
    /\ pc = "loop"
    /\ in_range(i)
    /\ it = <<>>
    /\ LET d == drop(builder, FALSE)
           c == [cur EXCEPT !.nexts = @ + 1, !.rel = @ \o d.rel]
       IN  /\ released' = released \o d.rel
           /\ results' = Append(results,
                            Result(Outcome("None", d), <<>>, c, it))
           /\ pc' = After(d)
    /\ alive' = FALSE
    /\ builder' = new
    /\ i' = 0
    /\ cur' = NoCall
    /\ UNCHANGED <<N, bad, tk, it, leaked, fed, fedAt, hist>>

\* Lines 77..78, it.next() panics: the unwinding drops the builder.  The
\* source keeps the items it did not yield.
PullPanic ==
    /\ pc = "loop"
    /\ in_range(i)
    /\ LET d == drop(builder, TRUE)
           c == [cur EXCEPT !.nexts = @ + 1, !.rel = @ \o d.rel]
       IN  /\ released' = released \o d.rel
           /\ results' = Append(results,
                            Result(Outcome("SourcePanic", d), <<>>, c, it))
           /\ pc' = After(d)
    /\ alive' = FALSE
    /\ builder' = new
    /\ i' = 0
    /\ cur' = NoCall
    /\ UNCHANGED <<N, bad, tk, it, leaked, fed, fedAt, hist>>

\* Line 80: builder.take() after N iterations, then the builder goes out of
\* scope and is dropped.
Return ==
    /\ pc = "loop"
    /\ ~in_range(i)
    /\ LET t == take(builder)
           d == drop(t.self, FALSE)
           c == [cur EXCEPT !.rel = @ \o t.rel \o d.rel]
       IN  /\ released' = released \o t.rel \o d.rel
           /\ results' = Append(results,
                            Result(Outcome(IF t.some THEN "Some" ELSE "None",
                                           d),
                                   t.arr, c, it))
           /\ pc' = After(d)
    /\ alive' = FALSE
    /\ builder' = new
    /\ i' = 0
    /\ cur' = NoCall
    /\ UNCHANGED <<N, bad, tk, it, leaked, fed, fedAt, hist>>

\* The caller turns the array it was last given into the source of the next
\* call (array.into_iter()): the elements move from the array to the source.
FeedBack ==
    /\ pc = "idle"
    /\ fedAt = -1
    /\ results /= <<>>
    /\ Len(results) < MaxCalls
    /\ results[Len(results)].kind = "Some"
    /\ it' = results[Len(results)].arr
    /\ fed' = results[Len(results)].arr
    /\ fedAt' = Len(results)
    /\ UNCHANGED <<N, bad, tk, pc, alive, builder, i, cur, results, released, leaked,
                   hist>>

Next == Call \/ PullSome \/ PullNone \/ PullPanic \/ Return \/ FeedBack

Spec == Init /\ [][Next]_vars

----------------------------------------------------------------------------
(* A client that uses the builder directly: any sequence of new, push,     *)
(* take and drop, the pushed values pulled from the source.                *)

Op(op, v, pre, post, some, arr, panic, rel, access, abort) ==
    [op |-> op, v |-> v, pre |-> pre, post |-> post, some |-> some,
     arr |-> arr, panic |-> panic, rel |-> rel, access |-> access,
     abort |-> abort]

BNew ==
    /\ pc = "idle"
    /\ results = <<>>
    /\ ~alive
    /\ Len(hist) < MaxOps
    /\ alive' = TRUE
    /\ builder' = new
    /\ hist' = Append(hist,
                 Op("new", Uninit, new, new, FALSE, <<>>, FALSE, <<>>, {},
                    FALSE))
    /\ UNCHANGED <<N, bad, tk, it, released, leaked, driverVars>>

\* push of the next item of the source; a panicking push is caught by the
\* client, which keeps the builder.
BPush ==
    /\ pc = "idle"
    /\ alive
    /\ it /= <<>>
    /\ Len(hist) < MaxOps
    /\ LET x == Head(it)
           p == push(builder, x)
       IN  /\ builder' = p.self
           /\ leaked' = leaked \cup p.leak
           /\ hist' = Append(hist,
                        Op("push", x, builder, p.self, FALSE, <<>>, p.panic,
                           <<>>, {}, FALSE))
    /\ it' = Tail(it)
    /\ UNCHANGED <<N, bad, tk, alive, released, driverVars>>

BTake ==
    /\ pc = "idle"
    /\ alive
    /\ Len(hist) < MaxOps
    /\ LET t == take(builder)
       IN  /\ builder' = t.self
           /\ released' = released \o t.rel
           /\ hist' = Append(hist,
                        Op("take", Uninit, builder, t.self, t.some, t.arr,
                           FALSE, t.rel, t.access, FALSE))
    /\ UNCHANGED <<N, bad, tk, it, alive, leaked, driverVars>>

\* The builder goes out of scope on the normal path; a panic of a
\* destructor is caught by the client, an abort ends the process.
BDrop ==
    /\ pc = "idle"
    /\ alive
    /\ Len(hist) < MaxOps
    /\ LET d == drop(builder, FALSE)
       IN  /\ released' = released \o d.rel
           /\ hist' = Append(hist,
                        Op("drop", Uninit, builder, builder, FALSE, <<>>,
                           d.panic, d.rel, d.access, d.abort))
           /\ pc' = After(d)
    /\ alive' = FALSE
    /\ UNCHANGED <<N, bad, tk, it, builder, leaked, i, cur, results, fed, fedAt>>

\* A panic raised in the client while it holds the builder unwinds through
\* the builder's owner: the builder is dropped by the unwinding.
BUnwind ==
    /\ pc = "idle"
    /\ alive
    /\ Len(hist) < MaxOps
    /\ LET d == drop(builder, TRUE)
       IN  /\ released' = released \o d.rel
           /\ hist' = Append(hist,
                        Op("unwind", Uninit, builder, builder, FALSE, <<>>,
                           d.panic, d.rel, d.access, d.abort))
           /\ pc' = After(d)
    /\ alive' = FALSE
    /\ UNCHANGED <<N, bad, tk, it, builder, leaked, i, cur, results, fed, fedAt>>

NextBuilder == BNew \/ BPush \/ BTake \/ BDrop \/ BUnwind

SpecBuilder == Init /\ [][NextBuilder]_vars

----------------------------------------------------------------------------
(* take, statement by statement, and an interruption between statements    *)

\* Line 44: the test self.len == N holds.
TakeEnter ==
    /\ pc = "idle"
    /\ alive
    /\ Len(hist) < MaxOps
    /\ builder.len = N
    /\ pc' = "take0"
    /\ tk' = [pre |-> builder, local |-> <<>>]
    /\ UNCHANGED <<N, bad, it, alive, builder, i, cur, results, released,
                   leaked, fed, fedAt, hist>>

\* Line 46, then line 47.
TakeStmt ==
    /\ pc \in {"take0", "take1"}
    /\ LET k  == IF pc = "take0" THEN 1 ELSE 2
           st == take_stmt([self |-> builder, local |-> tk.local], k)
       IN  /\ builder' = st.self
           /\ tk' = [tk EXCEPT !.local = st.local]
    /\ pc' = IF pc = "take0" THEN "take1" ELSE "take2"
    /\ UNCHANGED <<N, bad, it, alive, i, cur, results, released, leaked,
                   fed, fedAt, hist>>

\* Line 50: Some(arr.map(|v| v.assume_init())) is returned.
TakeFinish ==
    /\ pc = "take2"
    /\ hist' = Append(hist,
                 Op("take", Uninit, tk.pre, builder, TRUE, tk.local, FALSE,
                    <<>>, 1..N, FALSE))
    /\ pc' = "idle"
    /\ tk' = NoTake
    /\ UNCHANGED <<N, bad, it, alive, builder, i, cur, results, released,
                   leaked, fed, fedAt>>

\* take is interrupted between two statements by a panic that unwinds out
\* of it.  The local `arr` is an array of MaybeUninit and goes away without
\* a destructor being run; the builder is dropped by the unwinding.  What
\* neither the builder's drop released nor anyone owns is leaked.
TakeInterrupt ==
    /\ pc \in {"take0", "take1", "take2"}
    /\ LET d == drop(builder, TRUE)
           lost == ((Range(builder.arr) \cup Range(tk.local)) \ {Uninit})
                       \ Range(d.rel)
       IN  /\ released' = released \o d.rel
           /\ leaked' = leaked \cup lost
           /\ hist' = Append(hist,
                        Op("interrupt", Uninit, tk.pre, builder, FALSE,
                           tk.local, d.panic, d.rel, d.access, d.abort))
           /\ pc' = After(d)
    /\ alive' = FALSE
    /\ tk' = NoTake
    /\ UNCHANGED <<N, bad, it, builder, i, cur, results, fed, fedAt>>

NextTake ==
    \/ BNew \/ BPush \/ BTake \/ BDrop
    \/ TakeEnter \/ TakeStmt \/ TakeFinish \/ TakeInterrupt

SpecTake == Init /\ [][NextTake]_vars

\* The same client with elements whose destructors may panic.
SpecUnwind == InitBad /\ [][NextBuilder]_vars

----------------------------------------------------------------------------
(* Helpers of the properties                                               *)

\* How many times x occurs in the sequence s.
Count(s, x) == Cardinality({k \in DOMAIN s : s[k] = x})

\* The finished calls of next_array in which the source did not panic.
Finished == {j \in DOMAIN results : results[j].kind /= "SourcePanic"}

----------------------------------------------------------------------------
(* Properties of next_array (specification Spec)                           *)

\* C1: with at least N items in the source, next_array returns Some(array),
\* element k of the array is the k-th item pulled, the items pulled are the
\* first N items of the source in order, and exactly N items are gone from
\* the source when the call returns.
C1_FillsFirstN ==
    \A j \in Finished :
        LET r == results[j]
        IN  Len(r.before) >= N =>
                /\ r.kind = "Some"
                /\ Len(r.arr) = N
                /\ \A k \in 1..N : r.arr[k] = r.pulled[k]
                /\ r.pulled = SubSeq(r.before, 1, N)
                /\ r.after = SubSeq(r.before, N + 1, Len(r.before))
                /\ r.nexts = N

C1_Witness ==
    \E j \in Finished :
        /\ N = 3
        /\ Len(results[j].before) = 5
        /\ results[j].kind = "Some"
        /\ results[j].arr = <<1, 2, 3>>

\* C2: with N >= 1 and k < N items in the source, next_array returns None,
\* no array is surfaced, and each of the k items pulled has been destroyed
\* exactly once when the call returns: none leaked, none destroyed twice,
\* nothing else destroyed.
C2_ShortSourceReleasesAll ==
    \A j \in Finished :
        LET r == results[j]
        IN  (N >= 1 /\ Len(r.before) < N) =>
                /\ r.kind = "None"
                /\ r.arr = <<>>
                /\ r.pulled = r.before
                /\ Len(r.rel) = Len(r.before)
                /\ \A x \in Range(r.before) :
                       /\ Count(r.rel, x) = 1
                       /\ Count(released, x) = 1
                       /\ x \notin leaked

C2_Witness ==
    \E j \in Finished :
        /\ N = 3
        /\ results[j].before = <<1, 2>>
        /\ results[j].kind = "None"
        /\ results[j].rel = <<1, 2>>

\* C3: with N = 0 every call returns the empty array, calls next() not
\* once, and leaves the source as it was.
C3_ZeroSize ==
    N = 0 =>
        \A j \in DOMAIN results :
            LET r == results[j]
            IN  /\ r.kind = "Some"
                /\ r.arr = <<>>
                /\ r.nexts = 0
                /\ r.pulled = <<>>
                /\ r.after = r.before
                /\ r.rel = <<>>

C3_Witness ==
    /\ N = 0
    /\ \E j \in DOMAIN results :
           /\ results[j].before = <<1, 2, 3>>
           /\ results[j].kind = "Some"
           /\ it = <<1, 2, 3>>

----------------------------------------------------------------------------
(* Properties of the builder (specification SpecBuilder)                   *)

\* The log before operation j.
Before(j) == SubSeq(hist, 1, j - 1)

\* The elements a builder holds after the operations of the log h, as the
\* interface describes them: new and drop leave none, a push that returns
\* appends its value, a take that returns an array leaves none.
RECURSIVE Held(_)
Held(h) ==
    IF h = <<>>
    THEN <<>>
    ELSE LET e == h[Len(h)]
             r == Held(SubSeq(h, 1, Len(h) - 1))
         IN  CASE e.op = "push" -> IF e.panic THEN r ELSE Append(r, e.v)
               [] e.op = "take" -> IF e.some THEN <<>> ELSE r
               [] OTHER -> <<>>

\* The elements that a push appended.
Appended == {hist[j].v : j \in {k \in DOMAIN hist :
                                   hist[k].op = "push" /\ ~hist[k].panic}}

\* The arrays that take returned.
Taken == {j \in DOMAIN hist : hist[j].op = "take" /\ hist[j].some}

\* C4: take on a builder with len = N returns the N elements in the order
\* they were pushed, sets len to 0, destroys no element, and leaves the
\* builder owning none of them.
C4_TakeFull ==
    \A j \in DOMAIN hist :
        LET e == hist[j]
        IN  (e.op = "take" /\ e.pre.len = N) =>
                /\ e.some
                /\ Len(e.arr) = N
                /\ e.arr = Held(Before(j))
                /\ e.post.len = 0
                /\ e.rel = <<>>
                /\ \A s \in 1..N : e.post.arr[s] \notin Range(e.arr)

C4_Witness ==
    \E j \in DOMAIN hist :
        /\ N = 3
        /\ hist[j].op = "take"
        /\ hist[j].pre.len = 3
        /\ hist[j].arr = <<1, 2, 3>>
        /\ builder.len = 0

\* C5: take on a builder with len < N returns None and leaves len and every
\* slot as they were; nothing is read as a T, released or moved out.
C5_TakeShort ==
    \A j \in DOMAIN hist :
        LET e == hist[j]
        IN  (e.op = "take" /\ e.pre.len < N) =>
                /\ ~e.some
                /\ e.arr = <<>>
                /\ e.post = e.pre
                /\ e.rel = <<>>
                /\ e.access = {}

C5_Witness ==
    \E j \in DOMAIN hist :
        /\ N = 3
        /\ hist[j].op = "take"
        /\ hist[j].pre.len = 2
        /\ builder = [arr |-> <<1, 2, Uninit>>, len |-> 2]
        /\ alive

\* C6: dropping a builder that holds k elements releases exactly these k
\* elements, each once, and reads no slot at or beyond len.
C6_DropReleasesHeld ==
    \A j \in DOMAIN hist :
        LET e == hist[j]
            held == Held(Before(j))
        IN  e.op = "drop" =>
                /\ Len(held) = e.pre.len
                /\ Len(e.rel) = Len(held)
                /\ \A x \in Range(held) : Count(e.rel, x) = 1
                /\ Range(e.rel) = Range(held)
                /\ e.access = 1..e.pre.len

\* A drop of a part-filled builder that was taken from before.
C6_Witness ==
    \E j \in DOMAIN hist :
        /\ N = 2
        /\ hist[j].op = "drop"
        /\ hist[j].pre.len = 1
        /\ hist[j].rel = <<3>>
        /\ \E k \in 1..(j - 1) : hist[k].op = "take" /\ hist[k].some

\* C7: every element a push appended is owned by exactly one of a builder
\* slot below len, an array a take returned, the released elements; no
\* element is released twice; no slot at or beyond len is read or released.
C7_SingleOwner ==
    /\ \A x \in Appended :
           LET inBuilder == IF alive /\ \E s \in 1..builder.len :
                                            builder.arr[s] = x
                            THEN 1 ELSE 0
               inArrays == Cardinality({j \in Taken :
                                           x \in Range(hist[j].arr)})
           IN  inBuilder + inArrays + Count(released, x) = 1
    /\ \A k \in DOMAIN released :
           /\ released[k] \in Appended
           /\ Count(released, released[k]) = 1
    /\ \A j \in DOMAIN hist : hist[j].access \subseteq 1..hist[j].pre.len

\* One element in each kind of owner at once.
C7_Witness ==
    /\ N = 1
    /\ alive
    /\ builder.len = 1
    /\ builder.arr[1] = 3
    /\ released = <<2>>
    /\ \E j \in Taken : hist[j].arr = <<1>>

\* C8: of two takes in a row on a full builder the first returns the array
\* and sets len to 0, the second returns None when N >= 1, and neither the
\* second take nor a drop after it releases an element of that array.
C8_TakeTwice ==
    \A j \in DOMAIN hist :
        (/\ j + 1 \in DOMAIN hist
         /\ hist[j].op = "take"
         /\ hist[j].pre.len = N
         /\ hist[j + 1].op = "take") =>
            /\ hist[j].some
            /\ hist[j].post.len = 0
            /\ N >= 1 => ~hist[j + 1].some
            /\ hist[j + 1].rel = <<>>
            /\ (j + 2 \in DOMAIN hist /\ hist[j + 2].op = "drop") =>
                   Range(hist[j + 2].rel) \cap Range(hist[j].arr) = {}
            /\ Range(released) \cap Range(hist[j].arr) = {}

C8_Witness ==
    \E j \in DOMAIN hist :
        /\ N = 3
        /\ j + 2 \in DOMAIN hist
        /\ hist[j].op = "take"
        /\ hist[j].arr = <<1, 2, 3>>
        /\ hist[j + 1].op = "take"
        /\ hist[j + 2].op = "drop"

----------------------------------------------------------------------------
(* Properties of repeated next_array calls (specification Spec)            *)

\* C9: when the array A that a call returned is made the source of the
\* next call, with the same N, that call returns an array equal to A.
C9_RoundTrip ==
    (fedAt >= 1 /\ fedAt + 1 \in Finished) =>
        /\ results[fedAt].kind = "Some"
        /\ fed = results[fedAt].arr
        /\ results[fedAt + 1].before = fed
        /\ results[fedAt + 1].kind = "Some"
        /\ results[fedAt + 1].arr = fed

C9_Witness ==
    /\ N = 2
    /\ fedAt = 2
    /\ fed = <<3, 4>>
    /\ Len(results) = 3
    /\ results[3].kind = "Some"
    /\ results[3].arr = <<3, 4>>

\* The calls 1..j ran on the original source and it never panicked.
Plain(j) ==
    /\ \A k \in 1..j : results[k].kind /= "SourcePanic"
    /\ fedAt = -1 \/ j <= fedAt

\* C10: successive calls with N >= 1 on a source of m items (the tokens
\* 1..m): call j <= m div N returns the items (j-1)*N+1 .. j*N in order;
\* the call after those returns None and has destroyed each of the last
\* m mod N items exactly once; these are in no returned array and not in
\* the source; later calls return None and destroy nothing.
C10_SuccessiveCalls ==
    N >= 1 =>
        \A j \in DOMAIN results :
            LET r == results[j]
                m == Len(results[1].before)
                q == m \div N
                rest == (q * N + 1)..m
            IN  Plain(j) =>
                    IF j <= q
                    THEN /\ r.kind = "Some"
                         /\ r.arr = [k \in 1..N |-> (j - 1) * N + k]
                         /\ r.rel = <<>>
                    ELSE /\ r.kind = "None"
                         /\ r.after = <<>>
                         /\ Range(r.rel) = (IF j = q + 1 THEN rest ELSE {})
                         /\ \A x \in rest :
                                /\ Count(released, x) = 1
                                /\ Count(r.rel, x) = (IF j = q + 1 THEN 1 ELSE 0)
                                /\ x \notin Range(it)
                                /\ \A k \in DOMAIN results :
                                       x \notin Range(results[k].arr)

\* Source [1,2,3,4,5], N = 3: [1,2,3], then None with 4 and 5 destroyed.
C10_Witness ==
    /\ N = 3
    /\ Len(results) >= 2
    /\ results[1].before = <<1, 2, 3, 4, 5>>
    /\ results[1].arr = <<1, 2, 3>>
    /\ results[2].kind = "None"
    /\ results[2].rel = <<4, 5>>
    /\ released = <<4, 5>>

----------------------------------------------------------------------------
(* Further properties of the builder (specification SpecBuilder)           *)

\* C11: push on a builder with len = N panics and returns no value; len
\* stays N and no slot is overwritten; a drop of the builder right after
\* it releases the N held elements, each exactly once.
C11_PushFullPanics ==
    \A j \in DOMAIN hist :
        LET e == hist[j]
        IN  (e.op = "push" /\ e.pre.len = N) =>
                /\ e.panic
                /\ e.post.len = N
                /\ e.post.arr = e.pre.arr
                /\ e.v \notin Range(e.post.arr)
                /\ (j + 1 \in DOMAIN hist /\ hist[j + 1].op = "drop") =>
                       /\ hist[j + 1].rel = e.pre.arr
                       /\ \A x \in Range(e.pre.arr) : Count(released, x) = 1

C11_Witness ==
    /\ N = 2
    /\ Len(hist) = 5
    /\ hist[4].op = "push"
    /\ hist[4].pre = [arr |-> <<1, 2>>, len |-> 2]
    /\ hist[4].v = 3
    /\ hist[4].panic
    /\ hist[5].op = "drop"
    /\ released = <<1, 2>>

\* C12: 0 <= len <= N and exactly the slots below len hold live values;
\* len is 0 after new, push raises it by exactly one or panics and leaves
\* it, take sets it to 0 when it returns an array and leaves it otherwise.
C12_LenInvariant ==
    /\ builder.len \in 0..N
    /\ \A s \in 1..N : (builder.arr[s] /= Uninit) <=> (s <= builder.len)
    /\ \A j \in DOMAIN hist :
           LET e == hist[j]
           IN  /\ e.op = "new" => e.post.len = 0
               /\ e.op = "push" =>
                      e.post.len = (IF e.panic THEN e.pre.len
                                    ELSE e.pre.len + 1)
               /\ e.op = "take" =>
                      e.post.len = (IF e.some THEN 0 ELSE e.pre.len)
               /\ e.op = "drop" => e.post.len = e.pre.len
               /\ j > 1 /\ e.op /= "new" => e.pre.len = hist[j - 1].post.len

C12_Witness ==
    /\ N = 3
    /\ Len(hist) = 7
    /\ hist[4].post.len = 3
    /\ hist[5].op = "take"
    /\ hist[5].post.len = 0
    /\ hist[6].op = "push"
    /\ hist[7].op = "push"
    /\ builder = [arr |-> <<4, 5, Uninit>>, len |-> 2]

\* C13: push with len = c < N stores the value at index c and sets len to
\* c + 1; every other slot, the slots below c among them, is as before.
C13_PushAppends ==
    \A j \in DOMAIN hist :
        LET e == hist[j]
            c == e.pre.len
        IN  (e.op = "push" /\ c < N) =>
                /\ ~e.panic
                /\ e.post.len = c + 1
                /\ e.post.arr[c + 1] = e.v
                /\ \A s \in (1..N) \ {c + 1} : e.post.arr[s] = e.pre.arr[s]
                /\ Held(SubSeq(hist, 1, j)) = SubSeq(e.post.arr, 1, c + 1)

C13_Witness ==
    \E j \in DOMAIN hist :
        /\ N = 3
        /\ hist[j].op = "push"
        /\ hist[j].pre = [arr |-> <<1, 2, Uninit>>, len |-> 2]
        /\ hist[j].post = [arr |-> <<1, 2, 3>>, len |-> 3]

----------------------------------------------------------------------------
(* Further properties of next_array (specification Spec)                   *)

\* C14: a call consumes exactly min(N, available) items; with k < N items
\* available it calls next() k + 1 times (k items, then the exhaustion
\* signal) and not again; with at least N available it calls next()
\* exactly N times.
C14_PullCount ==
    /\ pc = "loop" => cur.nexts = Len(cur.pulled)
    /\ \A j \in Finished :
           LET r == results[j]
               k == Len(r.before)
           IN  IF k >= N
               THEN /\ r.nexts = N
                    /\ Len(r.pulled) = N
                    /\ Len(r.after) = k - N
               ELSE /\ r.nexts = k + 1
                    /\ r.pulled = r.before
                    /\ r.after = <<>>

C14_Witness ==
    /\ N = 3
    /\ Len(results) = 2
    /\ results[1].before = <<1, 2, 3, 4>>
    /\ results[1].nexts = 3
    /\ results[2].before = <<4>>
    /\ results[2].nexts = 2
    /\ results[2].pulled = <<4>>

\* C15: inside next_array push is called only with len < N, so it never
\* panics, and take is reached only with len = N, so it returns an array;
\* next_array returns None exactly when the source signalled exhaustion
\* before N items were pulled.
C15_DriverKeepsPreconditions ==
    /\ pc = "loop" =>
           /\ alive
           /\ i < N => builder.len < N
           /\ i >= N => builder.len = N
    /\ \A j \in DOMAIN results : results[j].kind /= "PushPanic"
    /\ \A j \in Finished :
           LET r == results[j]
               exhausted == r.nexts = Len(r.pulled) + 1
           IN  /\ r.kind \in {"Some", "None"}
               /\ r.kind = "None" <=> (exhausted /\ Len(r.pulled) < N)
               /\ r.kind = "Some" <=> (~exhausted /\ Len(r.pulled) = N)

C15_Witness ==
    /\ N = 2
    /\ Len(results) = 2
    /\ results[1].kind = "Some"
    /\ results[1].pulled = <<1, 2>>
    /\ results[2].kind = "None"
    /\ results[2].pulled = <<3>>

\* C17: when next() panics after k < N items were appended, no array is
\* returned and the builder dropped by the unwinding releases exactly
\* these k items, each exactly once.
C17_SourcePanicReleases ==
    \A j \in DOMAIN results :
        LET r == results[j]
        IN  r.kind = "SourcePanic" =>
                /\ r.arr = <<>>
                /\ Len(r.pulled) < N
                /\ Len(r.rel) = Len(r.pulled)
                /\ Range(r.rel) = Range(r.pulled)
                /\ \A x \in Range(r.pulled) :
                       /\ Count(r.rel, x) = 1
                       /\ Count(released, x) = 1
                       /\ x \notin leaked

C17_Witness ==
    \E j \in DOMAIN results :
        /\ N = 3
        /\ results[j].kind = "SourcePanic"
        /\ results[j].pulled = <<1, 2>>
        /\ results[j].rel = <<1, 2>>
        /\ results[j].after = <<3, 4>>

----------------------------------------------------------------------------
(* Reuse of a builder (specification SpecBuilder)                          *)

\* The values of the pushes of the log h that returned, in order.
RECURSIVE Pushes(_)
Pushes(h) ==
    IF h = <<>>
    THEN <<>>
    ELSE LET e == h[Len(h)]
             r == Pushes(SubSeq(h, 1, Len(h) - 1))
         IN  IF e.op = "push" /\ ~e.panic THEN Append(r, e.v) ELSE r

\* Between the operations j and k the builder was neither created, dropped
\* nor emptied by a take.
SameCycle(j, k) ==
    \A l \in (j + 1)..(k - 1) :
        \/ hist[l].op = "push"
        \/ hist[l].op = "take" /\ ~hist[l].some

\* C16: after a take that returned an array, N further pushes and a take
\* return exactly the N newly pushed elements in push order, none of them
\* from the first array; a drop at any point of the second cycle releases
\* only elements pushed since the first take.
C16_Reusable ==
    \A j \in Taken :
        \A k \in DOMAIN hist :
            LET e == hist[k]
                pushed == Pushes(SubSeq(hist, j + 1, k - 1))
            IN  (k > j /\ SameCycle(j, k)) =>
                    /\ (e.op = "take" /\ Len(pushed) = N) =>
                           /\ e.some
                           /\ e.arr = pushed
                           /\ Range(e.arr) \cap Range(hist[j].arr) = {}
                    /\ e.op = "drop" =>
                           /\ e.rel = pushed
                           /\ Range(e.rel) \cap Range(hist[j].arr) = {}

C16_Witness ==
    /\ N = 2
    /\ Len(hist) = 7
    /\ hist[4].op = "take"
    /\ hist[4].arr = <<1, 2>>
    /\ hist[7].op = "take"
    /\ hist[7].some
    /\ hist[7].arr = <<3, 4>>

----------------------------------------------------------------------------
(* The value of a rejected push (specification SpecBuilder)                *)

\* C19: a value passed to push on a builder with len = N is released
\* exactly once by the time the panic has left push; it is not leaked.
C19_RejectedValueReleased ==
    \A j \in DOMAIN hist :
        (hist[j].op = "push" /\ hist[j].pre.len = N) =>
            /\ Count(released, hist[j].v) = 1
            /\ hist[j].v \notin leaked

----------------------------------------------------------------------------
(* Destructors that panic (specification SpecUnwind)                       *)

\* The builder is dropped by operation j.
Discards(j) == hist[j].op \in {"drop", "unwind"}

\* How many of the first n elements of the sequence s have a destructor
\* that panics.
BadIn(s, n) == Cardinality({k \in 1..n : s[k] \in bad})

\* C18: when one or more destructors panic while a builder that holds k
\* elements is dropped, the destructor of every one of the k elements is
\* still run, each exactly once.
C18_AllAttempted ==
    \A j \in DOMAIN hist :
        LET e == hist[j]
            held == Held(Before(j))
        IN  (Discards(j) /\ e.panic) =>
                /\ Len(e.rel) = Len(held)
                /\ \A x \in Range(held) : Count(e.rel, x) = 1

\* C18 as amended: the destructors run in index order and none runs twice.
\* A builder with at most one panicking element has the destructor of every
\* held element run exactly once, whether it is dropped on the normal path
\* or by an unwinding panic; in the latter case the process is aborted
\* afterwards.  At a second panicking element the process is aborted and the
\* elements after it are not released.
C18_OnePanicAllAttempted ==
    \A j \in DOMAIN hist :
        LET e == hist[j]
            held == Held(Before(j))
            nbad == BadIn(held, Len(held))
            n == Len(e.rel)
        IN  Discards(j) =>
                /\ n <= Len(held)
                /\ e.rel = SubSeq(held, 1, n)
                /\ \A x \in Range(e.rel) : Count(e.rel, x) = 1
                /\ e.panic <=> nbad >= 1
                /\ e.abort <=> nbad >= (IF e.op = "unwind" THEN 1 ELSE 2)
                /\ nbad <= 1 => n = Len(held)
                /\ nbad >= 2 => /\ BadIn(held, n) = 2
                                /\ held[n] \in bad
                /\ e.abort => /\ pc = "aborted"
                              /\ j = Len(hist)

\* One destructor panics, on the normal path, and every element is released.
C18_Witness ==
    \E j \in DOMAIN hist :
        /\ N = 3
        /\ bad = {1}
        /\ hist[j].op = "drop"
        /\ hist[j].pre.len = 3
        /\ hist[j].panic
        /\ ~hist[j].abort
        /\ hist[j].rel = <<1, 2, 3>>

----------------------------------------------------------------------------
(* The order of the statements of take (specification SpecTake)            *)

\* C20: within take, len is set to 0 before the storage is moved out.  At
\* no step does the builder count as valid a slot whose element was moved
\* out: every slot below len holds an element that is not in take's local
\* array.  An interruption between the steps leaks elements at worst: the
\* builder's drop releases no element that was moved out, reads no
\* uninitialised slot and releases nothing twice.  The steps together are
\* the take of C4.
C20_LenResetFirst ==
    /\ pc = "take1" =>
           /\ builder.len = 0
           /\ builder.arr = tk.pre.arr
           /\ tk.local = <<>>
    /\ pc = "take2" =>
           /\ builder.len = 0
           /\ tk.local = tk.pre.arr
    /\ pc \in {"take0", "take1", "take2"} =>
           \A s \in 1..builder.len :
               /\ builder.arr[s] /= Uninit
               /\ builder.arr[s] \notin Range(tk.local)
    /\ \A j \in DOMAIN hist :
           LET e == hist[j]
           IN  /\ e.op = "interrupt" =>
                      /\ Range(e.rel) \cap Range(e.arr) = {}
                      /\ Uninit \notin Range(e.rel)
                      /\ \A x \in Range(e.pre.arr) :
                             /\ Count(released, x) <= 1
                             /\ Count(released, x) = 0 => x \in leaked
               /\ e.op = "take" =>
                      /\ e.post = take(e.pre).self
                      /\ e.arr = take(e.pre).arr
                      /\ e.some = take(e.pre).some

\* take is interrupted after the storage was moved out: nothing is
\* released and the elements are leaked.
C20_Witness ==
    /\ N = 2
    /\ Len(hist) = 4
    /\ hist[4].op = "interrupt"
    /\ hist[4].arr = <<1, 2>>
    /\ hist[4].post = [arr |-> <<Uninit, Uninit>>, len |-> 0]
    /\ hist[4].rel = <<>>
    /\ released = <<>>
    /\ leaked = {1, 2}

====
